---- MODULE Spec2Model ----
(***************************************************************************)
(* Router mesh orchestrator (k8s/router-mesh/images/orchestrator).         *)
(*                                                                         *)
(* One /route request is a coroutine that suspends at three awaits: the    *)
(* Redis GET, the L1 POST and the L2 POST.  Between two awaits the code    *)
(* runs atomically on the event loop, so every action below is one         *)
(* resumption of a request: from the completion of the call it waits on    *)
(* to the next await or to the return.  The write-back of a confident      *)
(* decision is a Starlette background task: it runs after the response     *)
(* has been sent, inside the same ASGI call.                               *)
(*                                                                         *)
(* Confidences are hundredths (0.85 is 85).  Time is in seconds.           *)
(***************************************************************************)
EXTENDS Integers, FiniteSets, Sequences, TLC

(* ------------------------------ bounds -------------------------------- *)

\* number of clock advances explored
MaxTicks == 2

\* faults of each type in a specification that counts them
MaxFaults == 1

\* requests entered by a specification that keeps the metrics
MaxRequests == 3

(* ------------------------- program constants -------------------------- *)

L1_CONFIDENCE == 85
L2_CONFIDENCE == 75
CACHE_TTL == 3600

\* httpx.AsyncClient(timeout=10.0)
HTTP_TIMEOUT == 10

\* an await that no timeout bounds
NoTimeout == 0

CORTEX_URL == "http://relay-core.cortex.svc:8000"

ROUTES ==
    [ unifi   |-> "http://unifi-mcp.mcp-servers.svc:8000",
      proxmox |-> "http://proxmox-mcp.mcp-servers.svc:8000",
      grafana |-> "http://grafana-mcp.mcp-servers.svc:8000",
      elastic |-> "http://elastic-mcp.mcp-servers.svc:8000",
      k3s     |-> "http://k3s-mcp.mcp-servers.svc:8000",
      netdata |-> "http://netdata-mcp.mcp-servers.svc:8000",
      cortex  |-> CORTEX_URL ]

RouteUrls == { ROUTES[l] : l \in DOMAIN ROUTES }

\* one clock advance: half a TTL, so that an entry is seen both warm and expired
TickStep == CACHE_TTL \div 2

(* ------------------------------ inputs -------------------------------- *)

\* request texts; the two differ only in letter case
Messages == { "list my pods", "List my pods" }

\* req.context: absent, or some object
Contexts == { "null", "{\"user\": \"admin\"}" }

\* concurrent ASGI calls (request coroutine plus its background task)
Slots == { 1, 2 }

\* what a POST to a classifier can produce.  kind "fail": the await or
\* .json() raised.  has_route FALSE: the body
\* has a usable confidence but no string under "route".
Ans(route, confidence) ==
    [ kind |-> "answer", http |-> 200, has_route |-> TRUE, route |-> route,
      confidence |-> confidence ]

\* the same body under an HTTP 500 status line
Ans5xx(route, confidence) ==
    [ kind |-> "answer", http |-> 500, has_route |-> TRUE, route |-> route,
      confidence |-> confidence ]

AnsNoRoute(confidence) ==
    [ kind |-> "answer", http |-> 200, has_route |-> FALSE, route |-> "",
      confidence |-> confidence ]

Fail == [ kind |-> "fail", http |-> 0, has_route |-> FALSE, route |-> "", confidence |-> 0 ]

NoAnswer == [ kind |-> "none", http |-> 0, has_route |-> FALSE, route |-> "", confidence |-> 0 ]

\* answers of the sequential specification: below both thresholds, between
\* them, at T2, at T1, a label outside the route table, an empty label, a
\* body without a label, and a confident body sent with status 500
AnswersSeq ==
    { Fail, Ans("k3s", 0), Ans("k3s", 55), Ans("k3s", 75), Ans("k3s", 85),
      Ans("bogus", 85), Ans("", 85), AnsNoRoute(85), Ans5xx("k3s", 85) }

\* answers of the concurrent specification
AnswersConc == { Fail, Ans("k3s", 0), Ans("k3s", 85) }

\* answers of the specification that keeps the metrics
AnswersMetrics == { Fail, Ans("k3s", 0), Ans("k3s", 85), Ans("bogus", 85), AnsNoRoute(85) }

\* the one text of the specification that keeps the history
MessagesHist == { "list my pods" }

(* --------------------------- pure functions --------------------------- *)

\* hashlib.sha256(message.encode()).hexdigest()[:16] of the two texts
Sha256Hex16(m) ==
    CASE m = "list my pods" -> "9823a2e3de13dae2"
      [] m = "List my pods" -> "df0a47319b3db315"

CacheKey(m) == << "route:", Sha256Hex16(m) >>

Keys == { CacheKey(m) : m \in Messages }

\* ROUTES.get(label, label): the unknown label taken for its own endpoint
RoutesGet_label(label, default) ==
    IF label \in DOMAIN ROUTES THEN ROUTES[label] ELSE label

\* ROUTES.get(label, default)
RoutesGet(label, default) ==
    IF label \in DOMAIN ROUTES THEN ROUTES[label] ELSE default

\* RouteResponse(...): status 200 is the response the handler returns
RouteResponse(route, route_url, confidence, layer, cached, ttft_ms) ==
    [ status |-> 200, route |-> route, route_url |-> route_url,
      confidence |-> confidence, layer |-> layer, cached |-> cached,
      latency_ms |-> "measured", ttft_ms |-> ttft_ms ]

\* what the caller gets when an exception leaves route_request
ErrorResponse ==
    [ status |-> 500, route |-> "", route_url |-> "", confidence |-> 0,
      layer |-> "", cached |-> FALSE, latency_ms |-> "none", ttft_ms |-> "none" ]

NoResponse ==
    [ status |-> 0, route |-> "", route_url |-> "", confidence |-> 0,
      layer |-> "", cached |-> FALSE, latency_ms |-> "none", ttft_ms |-> "none" ]

\* result.model_dump() stored as it is
CacheData_dump(result) ==
    [ route |-> result.route, route_url |-> result.route_url,
      confidence |-> result.confidence, layer |-> result.layer,
      cached |-> result.cached, latency_ms |-> result.latency_ms,
      ttft_ms |-> result.ttft_ms ]

\* result.model_dump() with cached, latency_ms and ttft_ms popped
CacheData(result) ==
    [ route |-> result.route, route_url |-> result.route_url,
      confidence |-> result.confidence, layer |-> result.layer ]

NoData == [ route |-> "", route_url |-> "", confidence |-> 0, layer |-> "" ]

NoEntry == [ present |-> FALSE, data |-> NoData, written_at |-> 0, expires |-> 0 ]

\* a non-empty value under the key that json.loads or RouteResponse(**data) rejects
Garbage == [ route |-> "", route_url |-> "", confidence |-> 0, layer |-> "undecodable" ]

\* json.loads(cached) and RouteResponse(**data) go through
Decodable(data) == data # Garbage

\* json={"text": req.message}: the body of the POST to L1_URL and to L2_URL
ClassifyPayload(message, ctx) == [ text |-> message ]

\* SET without expiry in place of SETEX: the entry outlives its TTL
Setex_persist(data, ttl, t) ==
    [ present |-> TRUE, data |-> data, written_at |-> t, expires |-> t + 1000 * ttl ]

\* redis SETEX key ttl value at time t
Setex(data, ttl, t) ==
    [ present |-> TRUE, data |-> data, written_at |-> t, expires |-> t + ttl ]

\* redis GET at time t: an entry whose time to live has run out is not returned
Live(entry, t) == entry.present /\ t < entry.expires

\* data["cached"] = True forgotten
CachedResponse_uncached(data) ==
    RouteResponse(data.route, data.route_url, data.confidence, data.layer, FALSE, "none")

\* the hit answered under a layer of its own
CachedResponse_layer(data) ==
    RouteResponse(data.route, data.route_url, data.confidence, "cache", TRUE, "none")

\* RouteResponse(**data) on a cache hit: cached set, latency measured anew,
\* ttft_ms left at its default
CachedResponse(data) ==
    RouteResponse(data.route, data.route_url, data.confidence, data.layer, TRUE, "none")

\* outcome of a phase of the cascade: return a response (with or without a
\* scheduled write-back), go on to the next phase, or let an exception escape
\* caught: the except clause of the phase ran (error logged and counted)
Return(resp, write) ==
    [ kind |-> "return", resp |-> resp, write |-> write, conf |-> 0, caught |-> FALSE ]
Continue(conf) ==
    [ kind |-> "continue", resp |-> NoResponse, write |-> FALSE, conf |-> conf, caught |-> FALSE ]
Caught(conf) ==
    [ kind |-> "continue", resp |-> NoResponse, write |-> FALSE, conf |-> conf, caught |-> TRUE ]
Raise ==
    [ kind |-> "raise", resp |-> ErrorResponse, write |-> FALSE, conf |-> 0, caught |-> FALSE ]

\* strict comparison with the threshold
L1Phase_strict(ans) ==
    IF ans.kind = "fail"
    THEN Caught(0)
    ELSE IF ans.confidence > L1_CONFIDENCE
         THEN IF ans.has_route
              THEN Return(RouteResponse(ans.route, RoutesGet(ans.route, CORTEX_URL),
                                        ans.confidence, "L1", FALSE, "measured"), TRUE)
              ELSE Caught(0)
         ELSE Continue(0)

\* no except clause around the L1 call
L1Phase_raise(ans) ==
    IF ans.kind = "fail"
    THEN Raise
    ELSE IF ans.confidence >= L1_CONFIDENCE
         THEN IF ans.has_route
              THEN Return(RouteResponse(ans.route, RoutesGet(ans.route, CORTEX_URL),
                                        ans.confidence, "L1", FALSE, "measured"), TRUE)
              ELSE Raise
         ELSE Continue(0)

\* the confident L1 decision returned without add_task
L1Phase_nowrite(ans) ==
    IF ans.kind = "fail"
    THEN Caught(0)
    ELSE IF ans.confidence >= L1_CONFIDENCE
         THEN IF ans.has_route
              THEN Return(RouteResponse(ans.route, RoutesGet(ans.route, CORTEX_URL),
                                        ans.confidence, "L1", FALSE, "measured"), FALSE)
              ELSE Caught(0)
         ELSE Continue(0)

\* the L1 try block and its except clause
L1Phase(ans) ==
    IF ans.kind = "fail"
    THEN Caught(0)
    ELSE IF ans.confidence >= L1_CONFIDENCE
         THEN IF ans.has_route
              THEN Return(RouteResponse(ans.route, RoutesGet(ans.route, CORTEX_URL),
                                        ans.confidence, "L1", FALSE, "measured"), TRUE)
              ELSE Caught(0)
         ELSE Continue(0)

\* L2 accepted whatever its confidence
L2Phase_any(ans) ==
    IF ans.kind = "fail"
    THEN Caught(0)
    ELSE IF ans.has_route
         THEN Return(RouteResponse(ans.route, RoutesGet(ans.route, CORTEX_URL),
                                   ans.confidence, "L2", FALSE, "measured"), TRUE)
         ELSE Caught(0)

\* no except clause around the L2 call
L2Phase_raise(ans) ==
    IF ans.kind = "fail"
    THEN Raise
    ELSE IF ans.confidence >= L2_CONFIDENCE
         THEN IF ans.has_route
              THEN Return(RouteResponse(ans.route, RoutesGet(ans.route, CORTEX_URL),
                                        ans.confidence, "L2", FALSE, "measured"), TRUE)
              ELSE Raise
         ELSE Continue(ans.confidence)

\* L2 accepted against the L1 threshold
L2Phase_t1(ans) ==
    IF ans.kind = "fail"
    THEN Caught(0)
    ELSE IF ans.confidence >= L1_CONFIDENCE
         THEN IF ans.has_route
              THEN Return(RouteResponse(ans.route, RoutesGet(ans.route, CORTEX_URL),
                                        ans.confidence, "L2", FALSE, "measured"), TRUE)
              ELSE Caught(0)
         ELSE Continue(ans.confidence)

\* the except clause leaves l2_data as the classifier sent it
L2Phase_keepconf(ans) ==
    IF ans.kind = "fail"
    THEN Caught(0)
    ELSE IF ans.confidence >= L2_CONFIDENCE
         THEN IF ans.has_route
              THEN Return(RouteResponse(ans.route, RoutesGet(ans.route, CORTEX_URL),
                                        ans.confidence, "L2", FALSE, "measured"), TRUE)
              ELSE Caught(ans.confidence)
         ELSE Continue(ans.confidence)

\* the escalation told nothing of the confidence L2 returned
L2Phase_zero(ans) ==
    IF ans.kind = "fail"
    THEN Caught(0)
    ELSE IF ans.confidence >= L2_CONFIDENCE
         THEN IF ans.has_route
              THEN Return(RouteResponse(ans.route, RoutesGet(ans.route, CORTEX_URL),
                                        ans.confidence, "L2", FALSE, "measured"), TRUE)
              ELSE Caught(0)
         ELSE Continue(0)

\* the L2 try block and its except clause; conf is l2_data["confidence"] as
\* the escalation reads it
L2Phase(ans) ==
    IF ans.kind = "fail"
    THEN Caught(0)
    ELSE IF ans.confidence >= L2_CONFIDENCE
         THEN IF ans.has_route
              THEN Return(RouteResponse(ans.route, RoutesGet(ans.route, CORTEX_URL),
                                        ans.confidence, "L2", FALSE, "measured"), TRUE)
              ELSE Caught(0)
         ELSE Continue(ans.confidence)

\* the escalated decision handed to cache_result like the confident ones
Escalation_write(conf) ==
    Return(RouteResponse("cortex", CORTEX_URL, conf, "escalated", FALSE, "measured"), TRUE)

\* the escalation after both tiers
Escalation(conf) ==
    Return(RouteResponse("cortex", CORTEX_URL, conf, "escalated", FALSE, "measured"), FALSE)

\* L2 phase followed by the escalation
L2Cascade(ans) ==
    IF L2Phase(ans).kind = "continue" THEN Escalation(L2Phase(ans).conf) ELSE L2Phase(ans)

(* ---------------------------- model server ---------------------------- *)

\* ROUTES of model_server.py, in the order the match loop walks it
ServerRoutes == << "unifi", "proxmox", "grafana", "elastic", "k3s", "netdata", "cortex" >>

\* output["choices"][0]["text"] as the model emits it
Texts ==
    { "k3s", "K3S ", "kubernetes", "", "k3s/unifi", "cortex", "netdatax", " Proxmox", "42" }

\* raw.strip().lower()
StripLower(text) ==
    CASE text = "K3S " -> "k3s"
      [] text = " Proxmox" -> "proxmox"
      [] OTHER -> text

\* the labels r with `r in raw_route`
LabelsIn(raw_route) ==
    CASE raw_route = "k3s" -> { "k3s" }
      [] raw_route = "k3s/unifi" -> { "k3s", "unifi" }
      [] raw_route = "cortex" -> { "cortex" }
      [] raw_route = "netdatax" -> { "netdata" }
      [] raw_route = "proxmox" -> { "proxmox" }
      [] OTHER -> {}

\* the match loop without its break: the last label found stays
MatchRoute_last(raw_route) ==
    LET hits == { i \in 1..Len(ServerRoutes) : ServerRoutes[i] \in LabelsIn(raw_route) }
    IN  IF hits = {}
        THEN "cortex"
        ELSE ServerRoutes[CHOOSE i \in hits : \A j \in hits : i >= j]

\* route = "cortex"; for r in ROUTES: if r in raw_route: route = r; break
MatchRoute(raw_route) ==
    LET hits == { i \in 1..Len(ServerRoutes) : ServerRoutes[i] \in LabelsIn(raw_route) }
    IN  IF hits = {}
        THEN "cortex"
        ELSE ServerRoutes[CHOOSE i \in hits : \A j \in hits : i <= j]

\* output["choices"][0].get("logprobs", {}) and its token_logprobs[0], the
\* number in hundredths.  "missing": no logprobs key; "null": logprobs is None;
\* "no_tokens": token_logprobs absent or empty; "first_none": [None, ...];
\* "neg_inf": -inf; "overflow": a number math.exp cannot represent
Logprobs(shape, value) == [ shape |-> shape, value |-> value ]

LogprobValues == { -230, -105, -69, -29, -16, -5, -1, 0, 5 }

LogprobsSet ==
    { Logprobs(sh, 0) : sh \in { "missing", "null", "no_tokens", "first_none",
                                 "neg_inf", "overflow" } }
        \cup { Logprobs("finite", v) : v \in LogprobValues }

\* req.text, which PROMPT_TEMPLATE.format puts into the prompt
RequestTexts == { "list my pods", "restart unifi" }

\* the call llm(prompt, ...) with input in its prompt: it raises, returns a
\* dict without choices, or returns a completion
Outputs ==
    { [ input |-> i, kind |-> k, text |-> "", logprobs |-> Logprobs("missing", 0) ] :
          i \in RequestTexts, k \in { "raise", "malformed" } }
        \cup { [ input |-> i, kind |-> "ok", text |-> t, logprobs |-> lp ] :
                   i \in RequestTexts, t \in Texts, lp \in LogprobsSet }

\* math.exp of a log-probability, both in hundredths
Exp(value) ==
    CASE value = -230 -> 10
      [] value = -105 -> 35
      [] value = -1 -> 99
      [] value = -69 -> 50
      [] value = -29 -> 75
      [] value = -16 -> 85
      [] value = -5 -> 95
      [] value = 0 -> 100
      [] value = 5 -> 105

\* the block under "Calculate confidence from logprobs"
Confidence(logprobs) ==
    CASE logprobs.shape \in { "missing", "no_tokens", "first_none" } -> 50
      [] logprobs.shape = "neg_inf" -> 0
      [] logprobs.shape = "finite" -> Exp(logprobs.value)

Min(a, b) == IF a < b THEN a ELSE b

\* ClassifyResponse(route, confidence) sent with status 200
ClassifyResponse(route, confidence) ==
    [ status |-> 200, route |-> route, confidence |-> confidence ]

\* what the caller gets when an exception leaves classify
ServerError == [ status |-> 500, route |-> "", confidence |-> 0 ]

\* the statements of the try block raise
Raises(out) ==
    \/ out.kind \in { "raise", "malformed" }
    \/ out.logprobs.shape \in { "null", "overflow" }

\* classify without its except clause
ClassifyResult_raise(model, out) ==
    IF model = "none"
    THEN ClassifyResponse("cortex", 0)
    ELSE IF Raises(out)
         THEN ServerError
         ELSE ClassifyResponse(MatchRoute(StripLower(out.text)),
                               Min(Confidence(out.logprobs), 100))

\* classify without min(confidence, 1.0)
ClassifyResult_noclip(model, out) ==
    IF model = "none"
    THEN ClassifyResponse("cortex", 0)
    ELSE IF Raises(out)
         THEN ClassifyResponse("cortex", 0)
         ELSE ClassifyResponse(MatchRoute(StripLower(out.text)), Confidence(out.logprobs))

\* classify(req) with the module-level llm being model and the call
\* llm(prompt, ...) doing out
ClassifyResult(model, out) ==
    IF model = "none"
    THEN ClassifyResponse("cortex", 0)
    ELSE IF Raises(out)
         THEN ClassifyResponse("cortex", 0)
         ELSE ClassifyResponse(MatchRoute(StripLower(out.text)),
                               Min(Confidence(out.logprobs), 100))

(* ------------------------------- state -------------------------------- *)

VARIABLES
    pc,          \* per slot: "idle", "cache_get", "l1", "l2", "done", and
                 \* "cache_get_silent", "l1_silent", "l2_silent" while the
                 \* awaited backend has taken the call and sends nothing
    msg,         \* per slot: req.message
    cache_read,  \* per slot: how the Redis GET ended: "none", "hit", "miss", "error"
    l1,          \* per slot: what the L1 POST produced
    l2,          \* per slot: what the L2 POST produced
    l1_calls,    \* per slot: POSTs issued to L1_URL
    l2_calls,    \* per slot: POSTs issued to L2_URL
    resp,        \* per slot: the response returned to the caller
    write,       \* per slot: background_tasks holds cache_result(cache_key, result)
    cache,       \* Redis: key -> entry
    now,         \* wall clock, seconds
    last_l1,     \* history: per message, the last confident L1 response returned
    prior,       \* history: per slot, last_l1 of the message when the request arrived
    active_requests,  \* the gauge router_active_requests
    errors_counter,   \* the counter router_errors_total, by type
    metrics,     \* cache_hits, cache_misses, route_counter, endpoint_load
    ttft_calls,  \* per slot: ttft_hist.observe calls made for the request
    context,     \* per slot: req.context
    cache_key,   \* per slot: the local cache_key
    llm,         \* model server: "loaded", or "none" after a failed load
    output,      \* model server: what llm(prompt, ...) did in the last classify
    reply        \* model server: what the last classify sent to its caller

vars == << pc, msg, cache_read, l1, l2, l1_calls, l2_calls, resp, write,
           cache, now, last_l1, prior, active_requests, errors_counter,
           metrics, ttft_calls, context, cache_key, llm, output, reply >>

\* the state of the model server, and of the orchestrator
srv == << llm, output, reply >>

orch == << pc, msg, cache_read, l1, l2, l1_calls, l2_calls, resp, write,
           cache, now, last_l1, prior, active_requests, errors_counter,
           metrics, ttft_calls, context, cache_key >>

\* the request as received and its key
req == << context, cache_key >>

NoKey == << "", "" >>

NoHist == [ present |-> FALSE, route |-> "", at |-> 0 ]

\* the label values of errors_counter
ErrorTypes == { "cache_read", "l1_inference", "l2_inference", "cache_write" }

\* the awaits of a request, and the state of an await left without reply
Calls == { "cache_get", "l1", "l2" }

SilentOf(call) ==
    CASE call = "cache_get" -> "cache_get_silent"
      [] call = "l1" -> "l1_silent"
      [] call = "l2" -> "l2_silent"

\* the request is between its entry and its return
InFlight(r) == pc[r] \in Calls \cup { SilentOf(c) : c \in Calls }

\* the timeout each await runs under, in seconds: httpx.AsyncClient(timeout=10.0)
\* for the POSTs; redis.from_url(...) sets no socket timeout
CallTimeout(call) ==
    CASE call = "cache_get" -> NoTimeout
      [] call \in { "l1", "l2" } -> HTTP_TIMEOUT

\* the label values of route_counter and endpoint_load
Layers == { "L1", "L2", "escalated" }

Labels == (DOMAIN ROUTES) \cup { a.route : a \in AnswersSeq \cup AnswersConc }

NoMetrics ==
    [ cache_hits |-> 0, cache_misses |-> 0,
      route_counter |-> [ x \in Labels \X Layers |-> 0 ],
      endpoint_load |-> [ l \in Labels |-> 0 ] ]

\* cache_hits.inc()
CacheHit(mt) == [ mt EXCEPT !.cache_hits = @ + 1 ]

\* cache_misses.inc()
CacheMiss(mt) == [ mt EXCEPT !.cache_misses = @ + 1 ]

\* route_counter.labels(...).inc() without endpoint_load
Decision_skipload(mt, result) ==
    [ mt EXCEPT !.route_counter[<< result.route, result.layer >>] = @ + 1 ]

\* route_counter.labels(route, layer).inc(); endpoint_load.labels(endpoint).inc()
Decision(mt, result) ==
    [ mt EXCEPT !.route_counter[<< result.route, result.layer >>] = @ + 1,
                !.endpoint_load[result.route] = @ + 1 ]

\* the metrics after a phase with outcome ph: a returned decision is counted
Decided(ph, count) ==
    IF count /\ ph.kind = "return" /\ ph.resp.status = 200
    THEN Decision(metrics, ph.resp)
    ELSE metrics

RECURSIVE SumOver(_, _)
SumOver(f, S) ==
    IF S = {} THEN 0
    ELSE LET x == CHOOSE y \in S : TRUE IN f[x] + SumOver(f, S \ { x })

\* GET /stats; cache_hit_rate as << numerator, denominator >>
Stats ==
    [ cache_hit_rate |->
          << metrics.cache_hits,
             IF metrics.cache_hits + metrics.cache_misses > 1
             THEN metrics.cache_hits + metrics.cache_misses ELSE 1 >>,
      total_requests |-> SumOver(metrics.route_counter, (DOMAIN ROUTES) \X Layers),
      active_requests |-> active_requests ]

\* requests that have entered, in a specification that keeps the metrics
Entered ==
    metrics.cache_hits + metrics.cache_misses + errors_counter["cache_read"]
        + Cardinality({ r \in Slots : pc[r] = "cache_get" })

NoOutput ==
    [ input |-> "", kind |-> "none", text |-> "", logprobs |-> [ shape |-> "missing", value |-> 0 ] ]

NoReply == [ status |-> 0, route |-> "", confidence |-> 0 ]

InitOrchestrator ==
    /\ pc = [ r \in Slots |-> "idle" ]
    /\ msg = [ r \in Slots |-> "" ]
    /\ cache_read = [ r \in Slots |-> "none" ]
    /\ l1 = [ r \in Slots |-> NoAnswer ]
    /\ l2 = [ r \in Slots |-> NoAnswer ]
    /\ l1_calls = [ r \in Slots |-> 0 ]
    /\ l2_calls = [ r \in Slots |-> 0 ]
    /\ resp = [ r \in Slots |-> NoResponse ]
    /\ write = [ r \in Slots |-> FALSE ]
    /\ cache = [ k \in Keys |-> NoEntry ]
    /\ now = 0
    /\ last_l1 = [ m \in Messages |-> NoHist ]
    /\ prior = [ r \in Slots |-> NoHist ]
    /\ active_requests = 0
    /\ errors_counter = [ t \in ErrorTypes |-> 0 ]
    /\ metrics = NoMetrics
    /\ ttft_calls = [ r \in Slots |-> 0 ]
    /\ context = [ r \in Slots |-> "null" ]
    /\ cache_key = [ r \in Slots |-> NoKey ]

Init ==
    /\ InitOrchestrator
    /\ llm = "loaded"
    /\ output = NoOutput
    /\ reply = NoReply

\* the model server after the import of model_server.py: the model loaded, or
\* Llama(...) raised and llm is None
InitClassify ==
    /\ InitOrchestrator
    /\ llm \in { "loaded", "none" }
    /\ output = NoOutput
    /\ reply = NoReply

(* ------------------------------ actions ------------------------------- *)

\* The parameter `track` switches the history variables on, `count` the
\* error counter: a specification that counts bounds the faults of each type
\* by MaxFaults.  Neither is read by route_request or cache_result.

\* every error counted under the type cache_read
ErrorsInc_cache_read(c, t) == [ c EXCEPT !["cache_read"] = @ + 1 ]

\* errors_counter.labels(type=t).inc()
ErrorsInc(c, t) == [ c EXCEPT ![t] = @ + 1 ]

Counted(t, count) == IF count THEN ErrorsInc(errors_counter, t) ELSE errors_counter

MayFail(t, count) == count => errors_counter[t] < MaxFaults

\* active_requests.dec() left out
Finally_skip(g) == g

\* finally: active_requests.dec()
Finally(g) == g - 1

\* the context hashed into the key: a request with a context gets another key
Arrive_ctx(r, m, ctx, track, count) ==
    /\ pc[r] = "idle"
    /\ count => Entered < MaxRequests
    /\ pc' = [ pc EXCEPT ![r] = "cache_get" ]
    /\ msg' = [ msg EXCEPT ![r] = m ]
    /\ context' = [ context EXCEPT ![r] = ctx ]
    /\ cache_key' = [ cache_key EXCEPT ![r] =
                        IF ctx = "null" THEN CacheKey(m)
                        ELSE CacheKey(CHOOSE x \in Messages : x # m) ]
    /\ prior' = [ prior EXCEPT ![r] = IF track THEN last_l1[m] ELSE NoHist ]
    /\ active_requests' = active_requests + 1
    /\ UNCHANGED << cache_read, l1, l2, l1_calls, l2_calls, resp, write, cache, now,
                    last_l1, errors_counter, metrics, ttft_calls, srv >>

\* POST /route arrives: the handler runs up to `await redis_client.get`
Arrive(r, m, ctx, track, count) ==
    /\ pc[r] = "idle"
    /\ count => Entered < MaxRequests
    /\ pc' = [ pc EXCEPT ![r] = "cache_get" ]
    /\ msg' = [ msg EXCEPT ![r] = m ]
    /\ context' = [ context EXCEPT ![r] = ctx ]
    /\ cache_key' = [ cache_key EXCEPT ![r] = CacheKey(m) ]
    /\ prior' = [ prior EXCEPT ![r] = IF track THEN last_l1[m] ELSE NoHist ]
    /\ active_requests' = active_requests + 1
    /\ UNCHANGED << cache_read, l1, l2, l1_calls, l2_calls, resp, write, cache, now,
                    last_l1, errors_counter, metrics, ttft_calls, srv >>

\* the except clause of the cache read, and on to the L1 POST
CacheReadFailed(r, count) ==
    /\ pc' = [ pc EXCEPT ![r] = "l1" ]
    /\ cache_read' = [ cache_read EXCEPT ![r] = "error" ]
    /\ l1_calls' = [ l1_calls EXCEPT ![r] = @ + 1 ]
    /\ errors_counter' = Counted("cache_read", count)
    /\ UNCHANGED << msg, l1, l2, l2_calls, resp, write, cache, now, last_l1, prior,
                    active_requests, metrics, ttft_calls, srv, req >>

\* the exception of the GET leaves route_request
CacheGetError_raise(r, count) ==
    /\ pc[r] = "cache_get"
    /\ MayFail("cache_read", count)
    /\ pc' = [ pc EXCEPT ![r] = "done" ]
    /\ cache_read' = [ cache_read EXCEPT ![r] = "error" ]
    /\ resp' = [ resp EXCEPT ![r] = ErrorResponse ]
    /\ active_requests' = Finally(active_requests)
    /\ errors_counter' = Counted("cache_read", count)
    /\ UNCHANGED << msg, l1, l2, l1_calls, l2_calls, write, cache, now, last_l1, prior,
                    metrics, ttft_calls, srv, req >>

\* the GET raised: cache_read error counted, the handler goes on to the L1 POST
CacheGetError(r, count) ==
    /\ pc[r] = "cache_get"
    /\ MayFail("cache_read", count)
    /\ CacheReadFailed(r, count)

\* the L1 POST issued whatever the GET returned
CacheGet_eager(r, count) ==
    /\ pc[r] = "cache_get"
    /\ IF Live(cache[CacheKey(msg[r])], now)
       THEN /\ pc' = [ pc EXCEPT ![r] = "done" ]
            /\ cache_read' = [ cache_read EXCEPT ![r] = "hit" ]
            /\ resp' = [ resp EXCEPT ![r] = CachedResponse(cache[CacheKey(msg[r])].data) ]
            /\ active_requests' = Finally(active_requests)
            /\ metrics' = IF count THEN CacheHit(metrics) ELSE metrics
       ELSE /\ pc' = [ pc EXCEPT ![r] = "l1" ]
            /\ cache_read' = [ cache_read EXCEPT ![r] = "miss" ]
            /\ metrics' = IF count THEN CacheMiss(metrics) ELSE metrics
            /\ UNCHANGED << resp, active_requests >>
    /\ l1_calls' = [ l1_calls EXCEPT ![r] = @ + 1 ]
    /\ UNCHANGED << msg, l1, l2, l2_calls, write, cache, now, last_l1, prior, errors_counter,
                    ttft_calls, srv, req >>

\* json.loads outside the try block: its exception leaves route_request
CacheGet_raise(r, count) ==
    /\ pc[r] = "cache_get"
    /\ IF Live(cache[cache_key[r]], now)
       THEN IF Decodable(cache[cache_key[r]].data)
            THEN /\ pc' = [ pc EXCEPT ![r] = "done" ]
                 /\ cache_read' = [ cache_read EXCEPT ![r] = "hit" ]
                 /\ resp' = [ resp EXCEPT ![r] = CachedResponse(cache[cache_key[r]].data) ]
                 /\ active_requests' = Finally(active_requests)
                 /\ metrics' = IF count THEN CacheHit(metrics) ELSE metrics
                 /\ UNCHANGED << l1_calls, errors_counter >>
            ELSE /\ pc' = [ pc EXCEPT ![r] = "done" ]
                 /\ cache_read' = [ cache_read EXCEPT ![r] = "error" ]
                 /\ resp' = [ resp EXCEPT ![r] = ErrorResponse ]
                 /\ active_requests' = Finally(active_requests)
                 /\ metrics' = IF count THEN CacheHit(metrics) ELSE metrics
                 /\ UNCHANGED << l1_calls, errors_counter >>
       ELSE /\ pc' = [ pc EXCEPT ![r] = "l1" ]
            /\ cache_read' = [ cache_read EXCEPT ![r] = "miss" ]
            /\ l1_calls' = [ l1_calls EXCEPT ![r] = @ + 1 ]
            /\ metrics' = IF count THEN CacheMiss(metrics) ELSE metrics
            /\ UNCHANGED << resp, active_requests, errors_counter >>
    /\ UNCHANGED << msg, l1, l2, l2_calls, write, cache, now, last_l1, prior,
                    ttft_calls, srv, req >>

\* the GET answered: a hit returns the cached decision, a miss goes on to L1
CacheGet(r, count) ==
    /\ pc[r] = "cache_get"
    /\ IF Live(cache[cache_key[r]], now)
       THEN IF Decodable(cache[cache_key[r]].data)
            THEN /\ pc' = [ pc EXCEPT ![r] = "done" ]
                 /\ cache_read' = [ cache_read EXCEPT ![r] = "hit" ]
                 /\ resp' = [ resp EXCEPT ![r] = CachedResponse(cache[cache_key[r]].data) ]
                 /\ active_requests' = Finally(active_requests)
                 /\ metrics' = IF count THEN CacheHit(metrics) ELSE metrics
                 /\ UNCHANGED << l1_calls, errors_counter >>
            ELSE \* cache_hits.inc() has run when json.loads raises
                 /\ MayFail("cache_read", count)
                 /\ pc' = [ pc EXCEPT ![r] = "l1" ]
                 /\ cache_read' = [ cache_read EXCEPT ![r] = "error" ]
                 /\ l1_calls' = [ l1_calls EXCEPT ![r] = @ + 1 ]
                 /\ metrics' = IF count THEN CacheHit(metrics) ELSE metrics
                 /\ errors_counter' = Counted("cache_read", count)
                 /\ UNCHANGED << resp, active_requests >>
       ELSE /\ pc' = [ pc EXCEPT ![r] = "l1" ]
            /\ cache_read' = [ cache_read EXCEPT ![r] = "miss" ]
            /\ l1_calls' = [ l1_calls EXCEPT ![r] = @ + 1 ]
            /\ metrics' = IF count THEN CacheMiss(metrics) ELSE metrics
            /\ UNCHANGED << resp, active_requests, errors_counter >>
    /\ UNCHANGED << msg, l1, l2, l2_calls, write, cache, now, last_l1, prior,
                    ttft_calls, srv, req >>

\* l1_data kept in a module-level variable that every request shares
L1Resolved_global(r, ans, track, count) ==
    /\ L1Phase(ans).caught => MayFail("l1_inference", count)
    /\ l1' = [ q \in Slots |-> ans ]
    /\ errors_counter' = IF L1Phase(ans).caught
                         THEN Counted("l1_inference", count)
                         ELSE errors_counter
    /\ CASE L1Phase(ans).kind = "return" ->
              /\ pc' = [ pc EXCEPT ![r] = "done" ]
              /\ resp' = [ resp EXCEPT ![r] = L1Phase(ans).resp ]
              /\ write' = [ write EXCEPT ![r] = L1Phase(ans).write ]
              /\ last_l1' = IF track
                            THEN [ last_l1 EXCEPT ![msg[r]] =
                                     [ present |-> TRUE, route |-> L1Phase(ans).resp.route, at |-> now ] ]
                            ELSE last_l1
              /\ active_requests' = Finally(active_requests)
              /\ UNCHANGED l2_calls
         [] L1Phase(ans).kind = "continue" ->
              /\ pc' = [ pc EXCEPT ![r] = "l2" ]
              /\ l2_calls' = [ l2_calls EXCEPT ![r] = @ + 1 ]
              /\ UNCHANGED << resp, write, last_l1, active_requests >>
         [] L1Phase(ans).kind = "raise" ->
              /\ pc' = [ pc EXCEPT ![r] = "done" ]
              /\ resp' = [ resp EXCEPT ![r] = ErrorResponse ]
              /\ active_requests' = Finally(active_requests)
              /\ UNCHANGED << write, l2_calls, last_l1 >>
    /\ ttft_calls' = [ ttft_calls EXCEPT ![r] = IF ans.kind = "answer" THEN @ + 1 ELSE @ ]
    /\ metrics' = Decided(L1Phase(ans), count)
    /\ UNCHANGED << msg, cache_read, l2, l1_calls, cache, now, prior, srv, req >>

\* the L1 phase from the resolution of the POST with ans
L1Resolved(r, ans, track, count) ==
    /\ L1Phase(ans).caught => MayFail("l1_inference", count)
    /\ l1' = [ l1 EXCEPT ![r] = ans ]
    /\ errors_counter' = IF L1Phase(ans).caught
                         THEN Counted("l1_inference", count)
                         ELSE errors_counter
    /\ CASE L1Phase(ans).kind = "return" ->
              /\ pc' = [ pc EXCEPT ![r] = "done" ]
              /\ resp' = [ resp EXCEPT ![r] = L1Phase(ans).resp ]
              /\ write' = [ write EXCEPT ![r] = L1Phase(ans).write ]
              /\ last_l1' = IF track
                            THEN [ last_l1 EXCEPT ![msg[r]] =
                                     [ present |-> TRUE, route |-> L1Phase(ans).resp.route, at |-> now ] ]
                            ELSE last_l1
              /\ active_requests' = Finally(active_requests)
              /\ UNCHANGED l2_calls
         [] L1Phase(ans).kind = "continue" ->
              /\ pc' = [ pc EXCEPT ![r] = "l2" ]
              /\ l2_calls' = [ l2_calls EXCEPT ![r] = @ + 1 ]
              /\ UNCHANGED << resp, write, last_l1, active_requests >>
         [] L1Phase(ans).kind = "raise" ->
              /\ pc' = [ pc EXCEPT ![r] = "done" ]
              /\ resp' = [ resp EXCEPT ![r] = ErrorResponse ]
              /\ active_requests' = Finally(active_requests)
              /\ UNCHANGED << write, l2_calls, last_l1 >>
    /\ ttft_calls' = [ ttft_calls EXCEPT ![r] = IF ans.kind = "answer" THEN @ + 1 ELSE @ ]
    /\ metrics' = Decided(L1Phase(ans), count)
    /\ UNCHANGED << msg, cache_read, l2, l1_calls, cache, now, prior, srv, req >>

\* the L1 POST resolved with ans
L1Return(r, ans, track, count) ==
    /\ pc[r] = "l1"
    /\ L1Resolved(r, ans, track, count)

\* the L2 phase and the escalation from the resolution of the POST with ans
L2Resolved(r, ans, count) ==
    /\ L2Phase(ans).caught => MayFail("l2_inference", count)
    /\ l2' = [ l2 EXCEPT ![r] = ans ]
    /\ errors_counter' = IF L2Phase(ans).caught
                         THEN Counted("l2_inference", count)
                         ELSE errors_counter
    /\ pc' = [ pc EXCEPT ![r] = "done" ]
    /\ resp' = [ resp EXCEPT ![r] = L2Cascade(ans).resp ]
    /\ write' = [ write EXCEPT ![r] = L2Cascade(ans).write ]
    /\ active_requests' = Finally(active_requests)
    /\ metrics' = Decided(L2Cascade(ans), count)
    /\ UNCHANGED << msg, cache_read, l1, l1_calls, l2_calls, cache, now, last_l1, prior,
                    ttft_calls, srv, req >>

\* the L2 POST resolved with ans
L2Return(r, ans, count) ==
    /\ pc[r] = "l2"
    /\ L2Resolved(r, ans, count)

\* the backend has taken the awaited call and never sends a reply
Silent(r) ==
    /\ pc[r] \in Calls
    /\ pc' = [ pc EXCEPT ![r] = SilentOf(pc[r]) ]
    /\ UNCHANGED << msg, cache_read, l1, l2, l1_calls, l2_calls, resp, write, cache, now,
                    last_l1, prior, active_requests, errors_counter, metrics, ttft_calls, srv, req >>

\* the timeout of an await left without reply runs out: the await raises
TimeoutFires(r, track, count) ==
    /\ \E call \in Calls :
          /\ pc[r] = SilentOf(call)
          /\ CallTimeout(call) # NoTimeout
          /\ CASE call = "cache_get" -> MayFail("cache_read", count) /\ CacheReadFailed(r, count)
               [] call = "l1" -> L1Resolved(r, Fail, track, count)
               [] call = "l2" -> L2Resolved(r, Fail, count)

\* the slot of a finished ASGI call is free again
Release(r) ==
    /\ pc' = [ pc EXCEPT ![r] = "idle" ]
    /\ msg' = [ msg EXCEPT ![r] = "" ]
    /\ cache_read' = [ cache_read EXCEPT ![r] = "none" ]
    /\ l1' = [ l1 EXCEPT ![r] = NoAnswer ]
    /\ l2' = [ l2 EXCEPT ![r] = NoAnswer ]
    /\ l1_calls' = [ l1_calls EXCEPT ![r] = 0 ]
    /\ l2_calls' = [ l2_calls EXCEPT ![r] = 0 ]
    /\ resp' = [ resp EXCEPT ![r] = NoResponse ]
    /\ write' = [ write EXCEPT ![r] = FALSE ]
    /\ prior' = [ prior EXCEPT ![r] = NoHist ]
    /\ ttft_calls' = [ ttft_calls EXCEPT ![r] = 0 ]
    /\ context' = [ context EXCEPT ![r] = "null" ]
    /\ cache_key' = [ cache_key EXCEPT ![r] = NoKey ]
    /\ UNCHANGED << metrics, srv >>

\* SET with KEEPTTL in place of SETEX: a live entry keeps its time to live
CacheResult_keepttl(r) ==
    /\ pc[r] = "done"
    /\ write[r]
    /\ cache' = [ cache EXCEPT ![cache_key[r]] =
                    IF Live(@, now)
                    THEN [ @ EXCEPT !.data = CacheData(resp[r]) ]
                    ELSE Setex(CacheData(resp[r]), CACHE_TTL, now) ]
    /\ Release(r)
    /\ UNCHANGED << now, last_l1, active_requests, errors_counter >>

\* the background task cache_result(key, result): SETEX went through
CacheResult(r) ==
    /\ pc[r] = "done"
    /\ write[r]
    /\ cache' = [ cache EXCEPT ![cache_key[r]] = Setex(CacheData(resp[r]), CACHE_TTL, now) ]
    /\ Release(r)
    /\ UNCHANGED << now, last_l1, active_requests, errors_counter >>

\* the background task cache_result(key, result): SETEX raised, cache_write error counted
CacheResultError(r, count) ==
    /\ pc[r] = "done"
    /\ write[r]
    /\ MayFail("cache_write", count)
    /\ errors_counter' = Counted("cache_write", count)
    /\ Release(r)
    /\ UNCHANGED << cache, now, last_l1, active_requests >>

\* a response without background task: the ASGI call ends
Complete(r) ==
    /\ pc[r] = "done"
    /\ ~write[r]
    /\ Release(r)
    /\ UNCHANGED << cache, now, last_l1, active_requests, errors_counter >>

\* time passes
Tick ==
    /\ now < MaxTicks * TickStep
    /\ now' = now + TickStep
    /\ UNCHANGED << pc, msg, cache_read, l1, l2, l1_calls, l2_calls, resp, write,
                    cache, last_l1, prior, active_requests, errors_counter,
                    metrics, ttft_calls, srv, req >>

\* another client of the Redis database puts a value under the key that is
\* not a serialized decision
ForeignSet(k) ==
    /\ cache[k].data # Garbage
    /\ cache' = [ cache EXCEPT ![k] =
                    [ present |-> TRUE, data |-> Garbage, written_at |-> now,
                      expires |-> now + CACHE_TTL ] ]
    /\ UNCHANGED << pc, msg, cache_read, l1, l2, l1_calls, l2_calls, resp, write, now,
                    last_l1, prior, active_requests, errors_counter, metrics, ttft_calls,
                    srv, req >>

\* POST /classify: with llm None the model is not called
Classify(out) ==
    /\ output' = IF llm = "none" THEN NoOutput ELSE out
    /\ reply' = ClassifyResult(llm, out)
    /\ UNCHANGED << llm, orch >>

(* --------------------------- specifications --------------------------- *)

\* requests one after the other, the full set of classifier answers
Next ==
    \/ \E m \in Messages : Arrive(1, m, "null", FALSE, FALSE)
    \/ CacheGetError(1, FALSE)
    \/ CacheGet(1, FALSE)
    \/ \E ans \in AnswersSeq : L1Return(1, ans, FALSE, FALSE)
    \/ \E ans \in AnswersSeq : L2Return(1, ans, FALSE)
    \/ CacheResult(1)
    \/ CacheResultError(1, FALSE)
    \/ Complete(1)
    \/ Tick

Spec == Init /\ [][Next]_vars

\* two requests in flight at once
NextConc ==
    \/ \E r \in Slots, m \in Messages : Arrive(r, m, "null", FALSE, FALSE)
    \/ \E r \in Slots : CacheGetError(r, FALSE)
    \/ \E r \in Slots : CacheGet(r, FALSE)
    \/ \E r \in Slots, ans \in AnswersConc : L1Return(r, ans, FALSE, FALSE)
    \/ \E r \in Slots, ans \in AnswersConc : L2Return(r, ans, FALSE)
    \/ \E r \in Slots : CacheResult(r)
    \/ \E r \in Slots : CacheResultError(r, FALSE)
    \/ \E r \in Slots : Complete(r)
    \/ Tick

SpecConc == Init /\ [][NextConc]_vars

\* two requests for one text in flight at once, with the history of the L1
\* decisions returned to callers
NextHist ==
    \/ \E r \in Slots, m \in MessagesHist : Arrive(r, m, "null", TRUE, FALSE)
    \/ \E r \in Slots : CacheGetError(r, FALSE)
    \/ \E r \in Slots : CacheGet(r, FALSE)
    \/ \E r \in Slots, ans \in AnswersConc : L1Return(r, ans, TRUE, FALSE)
    \/ \E r \in Slots, ans \in AnswersConc : L2Return(r, ans, FALSE)
    \/ \E r \in Slots : CacheResult(r)
    \/ \E r \in Slots : CacheResultError(r, FALSE)
    \/ \E r \in Slots : Complete(r)
    \/ Tick

SpecHist == Init /\ [][NextHist]_vars

\* MaxRequests requests for one text, two in flight at once, with the metrics
\* and at most MaxFaults faults of each type; the clock stands still
NextMetrics ==
    \/ \E r \in Slots, m \in MessagesHist : Arrive(r, m, "null", FALSE, TRUE)
    \/ \E r \in Slots : CacheGetError(r, TRUE)
    \/ \E r \in Slots : CacheGet(r, TRUE)
    \/ \E r \in Slots, ans \in AnswersMetrics : L1Return(r, ans, FALSE, TRUE)
    \/ \E r \in Slots, ans \in AnswersMetrics : L2Return(r, ans, TRUE)
    \/ \E r \in Slots : CacheResult(r)
    \/ \E r \in Slots : CacheResultError(r, TRUE)
    \/ \E r \in Slots : Complete(r)
    \/ ForeignSet(CacheKey("list my pods"))

SpecMetrics == Init /\ [][NextMetrics]_vars

\* requests one after the other, with backends that may take a call and stay
\* silent.  A call that is not left silent resolves, and a timeout that is
\* set runs out: weak fairness on both.
NextStall ==
    \/ \E m \in Messages : Arrive(1, m, "null", FALSE, FALSE)
    \/ CacheGetError(1, FALSE)
    \/ CacheGet(1, FALSE)
    \/ \E ans \in AnswersConc : L1Return(1, ans, FALSE, FALSE)
    \/ \E ans \in AnswersConc : L2Return(1, ans, FALSE)
    \/ Silent(1)
    \/ TimeoutFires(1, FALSE, FALSE)
    \/ CacheResult(1)
    \/ CacheResultError(1, FALSE)
    \/ Complete(1)
    \/ Tick

SpecStall ==
    /\ Init
    /\ [][NextStall]_vars
    /\ WF_vars(CacheGet(1, FALSE) \/ CacheGetError(1, FALSE))
    /\ WF_vars(\E ans \in AnswersConc : L1Return(1, ans, FALSE, FALSE))
    /\ WF_vars(\E ans \in AnswersConc : L2Return(1, ans, FALSE))
    /\ WF_vars(TimeoutFires(1, FALSE, FALSE))

\* two requests for one text in flight at once, with and without a context;
\* the clock stands still
NextContext ==
    \/ \E r \in Slots, m \in MessagesHist, ctx \in Contexts : Arrive(r, m, ctx, FALSE, FALSE)
    \/ \E r \in Slots : CacheGetError(r, FALSE)
    \/ \E r \in Slots : CacheGet(r, FALSE)
    \/ \E r \in Slots, ans \in AnswersConc : L1Return(r, ans, FALSE, FALSE)
    \/ \E r \in Slots, ans \in AnswersConc : L2Return(r, ans, FALSE)
    \/ \E r \in Slots : CacheResult(r)
    \/ \E r \in Slots : CacheResultError(r, FALSE)
    \/ \E r \in Slots : Complete(r)

SpecContext == Init /\ [][NextContext]_vars

\* the model server alone, called again and again
NextClassify == \E out \in Outputs : Classify(out)

SpecClassify == InitClassify /\ [][NextClassify]_vars

TypeOK ==
    /\ pc \in [ Slots -> { "idle", "cache_get", "l1", "l2", "done",
                           "cache_get_silent", "l1_silent", "l2_silent" } ]
    /\ \A r \in Slots : l1_calls[r] \in 0..1 /\ l2_calls[r] \in 0..1
    /\ active_requests \in 0..Cardinality(Slots)
    /\ errors_counter \in [ ErrorTypes -> Nat ]
    /\ metrics.cache_hits \in Nat /\ metrics.cache_misses \in Nat
    /\ \A r \in Slots : ttft_calls[r] \in 0..1
    /\ llm \in { "loaded", "none" }
    /\ context \in [ Slots -> Contexts ]
    /\ \A r \in Slots : cache_key[r] \in Keys \cup { NoKey }

(* ------------------------------ claims -------------------------------- *)

\* the tier answered below the threshold t, or its call failed
Insufficient(ans, t) ==
    \/ ans.kind = "fail"
    \/ ans.kind = "answer" /\ ans.confidence < t

\* the request of slot r has been answered without the cache
Classified(r) == pc[r] = "done" /\ cache_read[r] # "hit"

\* C1 as stated: L2 is invoked only if the L1 call failed or L1 returned a
\* confidence below T1; whenever L1 returns a confidence >= T1, L2 is never
\* called for that request.
C1_AsStated ==
    \A r \in Slots :
        /\ l2_calls[r] > 0 => Insufficient(l1[r], L1_CONFIDENCE)
        /\ (l1[r].kind = "answer" /\ l1[r].confidence >= L1_CONFIDENCE) => l2_calls[r] = 0

\* C1 amended: L2 is invoked only if the L1 call failed, L1 returned a
\* confidence below T1, or L1's answer carries no route label; whenever L1
\* returns a confidence >= T1 together with a route label, L2 is never called
\* for that request.
C1_L2OnlyAfterInsufficientL1 ==
    \A r \in Slots :
        /\ l2_calls[r] > 0 =>
              \/ Insufficient(l1[r], L1_CONFIDENCE)
              \/ l1[r].kind = "answer" /\ ~l1[r].has_route
        /\ (l1[r].kind = "answer" /\ l1[r].confidence >= L1_CONFIDENCE /\ l1[r].has_route)
              => l2_calls[r] = 0 /\ pc[r] = "done" /\ resp[r].layer = "L1"

\* C1 witness: a request answered by L1 at its threshold, L2 not called
C1_Witness ==
    \E r \in Slots :
        /\ pc[r] = "done"
        /\ l1[r] = Ans("k3s", L1_CONFIDENCE)
        /\ l1_calls[r] = 1
        /\ l2_calls[r] = 0

\* C2: a request that missed the cache, with L1 below T1 or failed and L2
\* below T2 or failed, is answered with layer "escalated", route "cortex" and
\* the fallback URL, and schedules no cache write.
C2_EscalatedFallbackNoWrite ==
    \A r \in Slots :
        ( /\ Classified(r)
          /\ Insufficient(l1[r], L1_CONFIDENCE)
          /\ Insufficient(l2[r], L2_CONFIDENCE) )
        => /\ resp[r].layer = "escalated"
           /\ resp[r].route = "cortex"
           /\ resp[r].route_url = CORTEX_URL
           /\ ~write[r]

\* C2 witness: both tiers answered below their thresholds
C2_Witness ==
    \E r \in Slots :
        /\ Classified(r)
        /\ l1[r] = Ans("k3s", 55)
        /\ l2[r] = Ans("k3s", 55)
        /\ resp[r].layer = "escalated"

\* C3: every cache entry holds a decision of layer L1 with confidence >= T1 or
\* of layer L2 with confidence >= T2; no escalated decision is written, and
\* none is served from the cache.
C3_OnlyConfidentCached ==
    /\ \A k \in Keys :
          cache[k].present =>
              \/ cache[k].data.layer = "L1" /\ cache[k].data.confidence >= L1_CONFIDENCE
              \/ cache[k].data.layer = "L2" /\ cache[k].data.confidence >= L2_CONFIDENCE
    /\ \A r \in Slots :
          /\ resp[r].layer = "escalated" => ~write[r] /\ ~resp[r].cached
          /\ write[r] => resp[r].layer \in { "L1", "L2" }

\* C3 witness: an escalated request has completed and the cache holds an L2
\* decision for the other text only
C3_Witness ==
    \E r \in Slots :
        /\ Classified(r)
        /\ resp[r].layer = "escalated"
        /\ ~cache[CacheKey(msg[r])].present
        /\ \E k \in Keys : cache[k].present /\ cache[k].data.layer = "L2"

\* C4: a failed L1 call goes on to L2 and ends in the response that an L1
\* answer of confidence 0 ends in; a failed L2 call ends in the escalated
\* fallback decision that an L2 answer of confidence 0 ends in.
C4_FailureIsConfidenceZero ==
    \A r \in Slots :
        /\ (l1[r].kind = "fail" /\ pc[r] \in { "l2", "done" }) => l2_calls[r] = 1
        /\ (l2[r].kind = "fail" /\ pc[r] = "done") =>
              /\ resp[r].layer = "escalated"
              /\ resp[r].route = "cortex"
              /\ resp[r].route_url = CORTEX_URL
              /\ resp[r].confidence = 0
        /\ \A q \in Slots :
              ( /\ pc[r] = "done" /\ pc[q] = "done"
                /\ l1[r].kind = "fail"
                /\ l1[q].kind = "answer" /\ l1[q].confidence = 0
                /\ l2[r] = l2[q] )
              => resp[r] = resp[q] /\ write[r] = write[q]
        /\ \A q \in Slots :
              ( /\ pc[r] = "done" /\ pc[q] = "done"
                /\ l2[r].kind = "fail"
                /\ l2[q].kind = "answer" /\ l2[q].confidence = 0 )
              => resp[r] = resp[q] /\ write[r] = write[q]

\* C4 witness: two finished requests with the same response, L1 failed and L2
\* answered 0 for one, L1 answered 0 and L2 failed for the other
C4_Witness ==
    \E r, q \in Slots :
        /\ pc[r] = "done" /\ pc[q] = "done"
        /\ l1[r].kind = "fail" /\ l1[q] = Ans("k3s", 0)
        /\ l2[r] = Ans("k3s", 0) /\ l2[q].kind = "fail"
        /\ resp[r] = resp[q]
        /\ resp[r].layer = "escalated"

Lookup(r) == pc[r] = "cache_get" /\ pc'[r] # "cache_get"

\* C6: the route of every response is a key of the route table and is never
\* empty, whatever label the classifiers answer.
C6_RouteInTable ==
    \A r \in Slots :
        pc[r] = "done" => resp[r].route \in DOMAIN ROUTES /\ resp[r].route # ""

\* C7: a label outside the route table, returned at or above the threshold,
\* does not fail the request: it is answered with the fallback URL; the
\* route_url of every response is a URL of the route table.
C7_UnknownLabelToFallbackUrl ==
    \A r \in Slots :
        pc[r] = "done" =>
            /\ resp[r].status = 200
            /\ resp[r].route_url \in RouteUrls
            /\ resp[r].route \notin DOMAIN ROUTES => resp[r].route_url = CORTEX_URL
            /\ resp[r].route \in DOMAIN ROUTES => resp[r].route_url = ROUTES[resp[r].route]

\* C7 witness: L2 returned the unknown label at its threshold or above and
\* the request is answered with the fallback URL
C7_Witness ==
    \E r \in Slots :
        /\ Classified(r)
        /\ l2[r] = Ans("bogus", 85)
        /\ resp[r].layer = "L2"
        /\ resp[r].route = "bogus"
        /\ resp[r].route_url = CORTEX_URL

\* C8: a lookup that the cache answers while it holds an unexpired entry for
\* the key returns cached = true with the route and the confidence of the
\* entry, and the request calls neither L1 nor L2.
C8_WarmHitServedFromCache ==
    /\ [][ \A r \in Slots :
              ( /\ Lookup(r)
                /\ cache_read'[r] # "error"
                /\ Live(cache[CacheKey(msg[r])], now) )
              => /\ pc'[r] = "done"
                 /\ resp'[r].status = 200
                 /\ resp'[r].cached
                 /\ resp'[r].route = cache[CacheKey(msg[r])].data.route
                 /\ resp'[r].confidence = cache[CacheKey(msg[r])].data.confidence
                 /\ l1_calls'[r] = 0 /\ l2_calls'[r] = 0 ]_vars
    /\ [](\A r \in Slots : cache_read[r] = "hit" =>
              pc[r] = "done" /\ l1_calls[r] = 0 /\ l2_calls[r] = 0)

\* C8 witness: a request answered from the cache with an L2 decision
C8_Witness ==
    \E r \in Slots :
        /\ pc[r] = "done"
        /\ cache_read[r] = "hit"
        /\ resp[r].cached
        /\ resp[r].layer = "L2"
        /\ resp[r] = CachedResponse(cache[CacheKey(msg[r])].data)

\* C9 as stated: once a request for m has returned a confident L1 decision, a
\* following request for m whose lookup the cache answers within the TTL
\* returns the same route with layer L1 and cached = true, and calls no
\* classifier.
C9_AsStated ==
    [][ \A r \in Slots :
           ( /\ Lookup(r)
             /\ cache_read'[r] # "error"
             /\ prior[r].present
             /\ now < prior[r].at + CACHE_TTL )
           => /\ pc'[r] = "done"
              /\ resp'[r].cached
              /\ resp'[r].layer = "L1"
              /\ resp'[r].route = prior[r].route
              /\ l1_calls'[r] = 0 /\ l2_calls'[r] = 0 ]_vars

\* C9 amended: once the write-back of a confident L1 decision for m has gone
\* through, a request for m whose lookup the cache answers within the TTL of
\* that write, and before any later write to the key, returns the route of
\* that decision with layer L1 and cached = true, and calls no classifier.
C9_AfterWriteBackL1Hit ==
    /\ [][ \A r \in Slots :
              ( /\ Lookup(r)
                /\ cache_read'[r] # "error"
                /\ cache[CacheKey(msg[r])].present
                /\ cache[CacheKey(msg[r])].data.layer = "L1"
                /\ now < cache[CacheKey(msg[r])].written_at + CACHE_TTL )
              => /\ pc'[r] = "done"
                 /\ resp'[r].cached
                 /\ resp'[r].layer = "L1"
                 /\ resp'[r].route = cache[CacheKey(msg[r])].data.route
                 /\ l1_calls'[r] = 0 /\ l2_calls'[r] = 0 ]_vars
    /\ [](\A m \in MessagesHist :
              (cache[CacheKey(m)].present /\ cache[CacheKey(m)].data.layer = "L1")
              => last_l1[m].present)

\* C9 witness: a request that arrived after an L1 decision for its text had
\* been returned is answered from the cache with that decision
C9_Witness ==
    \E r \in Slots :
        /\ pc[r] = "done"
        /\ prior[r].present
        /\ cache_read[r] = "hit"
        /\ resp[r].cached
        /\ resp[r].layer = "L1"
        /\ resp[r].route = prior[r].route

\* C10: no lookup is answered from an entry whose TTL has elapsed since it
\* was written; a lookup at or after written_at + CACHE_TTL is a miss and the
\* request calls L1.
C10_NeverServedAfterTtl ==
    [][ \A r \in Slots :
           Lookup(r) =>
              /\ resp'[r].cached =>
                    /\ cache[CacheKey(msg[r])].present
                    /\ now < cache[CacheKey(msg[r])].written_at + CACHE_TTL
              /\ ( /\ cache[CacheKey(msg[r])].present
                   /\ now >= cache[CacheKey(msg[r])].written_at + CACHE_TTL )
                 => /\ pc'[r] = "l1"
                    /\ cache_read'[r] \in { "miss", "error" }
                    /\ l1_calls'[r] = 1
                    /\ ~resp'[r].cached ]_vars

\* C10 witness: the lookup missed although an entry for the key is stored:
\* its TTL had run out, and L1 has been called
C10_Witness ==
    \E r \in Slots :
        /\ pc[r] = "l1"
        /\ cache_read[r] = "miss"
        /\ l1_calls[r] = 1
        /\ cache[CacheKey(msg[r])].present
        /\ now >= cache[CacheKey(msg[r])].written_at + CACHE_TTL

\* C11: a lookup on an unreachable cache behaves as a miss: the request goes
\* on to L1 and is answered with cached = false, as a request that missed
\* would be; a failed cache write changes neither the cache nor any response
\* and reaches no caller.
C11_CacheOutageAbsorbed ==
    /\ [](\A r \in Slots :
            cache_read[r] = "error" =>
                /\ pc[r] \in { "l1", "l2", "done" }
                /\ l1_calls[r] = 1
                /\ pc[r] = "done" => resp[r].status = 200 /\ ~resp[r].cached)
    /\ [](\A r, q \in Slots :
            ( /\ pc[r] = "done" /\ pc[q] = "done"
              /\ cache_read[r] = "error" /\ cache_read[q] = "miss"
              /\ l1[r] = l1[q] /\ l2[r] = l2[q] )
            => resp[r] = resp[q] /\ write[r] = write[q])
    /\ [][ errors_counter'["cache_write"] # errors_counter["cache_write"] =>
              /\ cache' = cache
              /\ \A q \in Slots :
                    \/ pc'[q] = pc[q] /\ resp'[q] = resp[q]
                    \/ pc[q] = "done" /\ write[q] /\ resp[q].status = 200 /\ pc'[q] = "idle" ]_vars

\* C11 witness: after a failed cache write, a request whose lookup failed has
\* been answered by L1, uncached
C11_Witness ==
    /\ errors_counter["cache_write"] = 1
    /\ \E r \in Slots :
          /\ pc[r] = "done"
          /\ cache_read[r] = "error"
          /\ errors_counter["cache_read"] = 1
          /\ resp[r].status = 200
          /\ resp[r].layer = "L1"
          /\ ~resp[r].cached

\* C12: every downstream call is bounded by a timeout, so every request that
\* has entered reaches its response, also when a backend takes the call and
\* never replies.
C12_EveryRequestTerminates ==
    \A r \in Slots : (pc[r] # "idle") ~> (pc[r] = "done")

\* the normalization the cache key is said to apply: trimmed and case-folded
CaseFoldTrim(m) ==
    CASE m = "list my pods" -> "list my pods"
      [] m = "List my pods" -> "list my pods"

\* C13: two texts that differ only in letter case have the same cache key, so
\* a lookup the cache answers while it holds an unexpired entry written for
\* the one is a hit for the other.
C13_NormalizedKey ==
    [][ \A r \in Slots :
           ( /\ Lookup(r)
             /\ cache_read'[r] # "error"
             /\ \E m \in Messages :
                   /\ CaseFoldTrim(m) = CaseFoldTrim(msg[r])
                   /\ Live(cache[CacheKey(m)], now) )
           => /\ pc'[r] = "done"
              /\ resp'[r].cached
              /\ \A m \in Messages :
                    CaseFoldTrim(m) = CaseFoldTrim(msg[r]) => CacheKey(m) = CacheKey(msg[r]) ]_vars

\* C14: a classifier response with a 5xx status is a failure of its tier
\* whatever its body: after it from L1 the request goes on to L2, after it
\* from L2 the request escalates; it is never accepted nor written back.
C14_5xxIsFailure ==
    \A r \in Slots :
        /\ (l1[r].http >= 500 /\ pc[r] \in { "l2", "done" }) =>
              /\ l2_calls[r] = 1
              /\ pc[r] = "done" => resp[r].layer # "L1"
        /\ (l2[r].http >= 500 /\ pc[r] = "done") =>
              /\ resp[r].layer = "escalated"
              /\ ~write[r]

\* C15: on a cache miss, an L1 answer (route, c) with c >= T1 is answered with
\* layer "L1", that route, that confidence and cached = false, and one
\* write-back for the key of the request is scheduled.
C15_L1Accepts ==
    \A r \in Slots :
        ( /\ l1[r].kind = "answer" /\ l1[r].has_route
          /\ l1[r].confidence >= L1_CONFIDENCE )
        => /\ Classified(r)
           /\ resp[r].status = 200
           /\ resp[r].layer = "L1"
           /\ resp[r].route = l1[r].route
           /\ resp[r].confidence = l1[r].confidence
           /\ ~resp[r].cached
           /\ write[r]
           /\ l2_calls[r] = 0

\* C15 witness: L1 answered at exactly T1 with a label outside the route
\* table; the response carries it and the write-back is pending
C15_Witness ==
    \E r \in Slots :
        /\ Classified(r)
        /\ l1[r] = Ans("bogus", L1_CONFIDENCE)
        /\ resp[r].layer = "L1"
        /\ resp[r].route = "bogus"
        /\ write[r]

\* C16: when the request reaches L2 and L2 answers (route, c) with c >= T2, the
\* response has layer "L2", that route and that confidence, also for c < T1,
\* and one write-back is scheduled.
C16_L2AcceptsOnT2 ==
    \A r \in Slots :
        ( /\ pc[r] = "done"
          /\ l2[r].kind = "answer" /\ l2[r].has_route
          /\ l2[r].confidence >= L2_CONFIDENCE )
        => /\ cache_read[r] # "hit"
           /\ Insufficient(l1[r], L1_CONFIDENCE) \/ ~l1[r].has_route
           /\ resp[r].status = 200
           /\ resp[r].layer = "L2"
           /\ resp[r].route = l2[r].route
           /\ resp[r].confidence = l2[r].confidence
           /\ ~resp[r].cached
           /\ write[r]

\* C16 witness: L1 failed and L2 answered at T2, below T1
C16_Witness ==
    \E r \in Slots :
        /\ pc[r] = "done"
        /\ l1[r].kind = "fail"
        /\ l2[r] = Ans("k3s", L2_CONFIDENCE)
        /\ L2_CONFIDENCE < L1_CONFIDENCE
        /\ resp[r].layer = "L2"
        /\ write[r]

\* C17: in every response, cached or not, layer "L1" comes with a confidence
\* >= T1 and layer "L2" with a confidence >= T2; a route other than the
\* fallback comes with layer L1 or L2; layer "escalated" comes with the
\* fallback route and a confidence below T2.
C17_NoLowConfidenceRoute ==
    \A r \in Slots :
        pc[r] = "done" =>
            /\ resp[r].layer = "L1" => resp[r].confidence >= L1_CONFIDENCE
            /\ resp[r].layer = "L2" => resp[r].confidence >= L2_CONFIDENCE
            /\ resp[r].route # "cortex" => resp[r].layer \in { "L1", "L2" }
            /\ resp[r].layer = "escalated" =>
                  /\ resp[r].route = "cortex"
                  /\ resp[r].route_url = CORTEX_URL
                  /\ resp[r].confidence < L2_CONFIDENCE

\* C17 witness: L2 cleared T2 with a body that has no route label, and the
\* request escalated with confidence 0
C17_Witness ==
    \E r \in Slots :
        /\ pc[r] = "done"
        /\ l2[r] = AnsNoRoute(85)
        /\ resp[r].layer = "escalated"
        /\ resp[r].confidence = 0

\* C18: the in-flight gauge equals the number of requests that have entered
\* and not returned; it goes up by one on entry, down by one on every return,
\* is never negative and is 0 when no request is in flight.
C18_GaugeCountsInFlight ==
    /\ [](/\ active_requests = Cardinality({ r \in Slots : InFlight(r) })
          /\ active_requests >= 0)
    /\ [][ \A r \in Slots :
              /\ (InFlight(r) /\ ~InFlight(r)') =>
                    pc'[r] = "done" /\ active_requests' = active_requests - 1
              /\ (~InFlight(r) /\ InFlight(r)') =>
                    pc[r] = "idle" /\ active_requests' = active_requests + 1
              /\ (InFlight(r) = InFlight(r)' /\ \A q \in Slots \ { r } : pc'[q] = pc[q]) =>
                    active_requests' = active_requests ]_vars

\* C18 witness: one request has returned from a cache hit while another is
\* waiting for L2
C18_Witness ==
    \E r, q \in Slots :
        /\ pc[r] = "done" /\ cache_read[r] = "hit"
        /\ pc[q] = "l2"
        /\ active_requests = 1

\* C19: L1 is called only once the cache lookup has ended in a miss or an
\* error, L2 only once the L1 call has resolved; the two are never awaited at
\* the same time and each is called at most once per request.
C19_CallsInOrder ==
    /\ [](\A r \in Slots :
            /\ l1_calls[r] <= 1 /\ l2_calls[r] <= 1
            /\ l1_calls[r] = 1 => cache_read[r] \in { "miss", "error" }
            /\ l2_calls[r] = 1 => l1_calls[r] = 1 /\ l1[r].kind # "none"
            /\ pc[r] = "l1" => l1[r].kind = "none" /\ l2_calls[r] = 0
            /\ pc[r] = "l2" => l1[r].kind # "none" /\ l2[r].kind = "none")
    /\ [][ \A r \in Slots :
              /\ l1_calls'[r] > l1_calls[r] =>
                    Lookup(r) /\ cache_read'[r] \in { "miss", "error" } /\ pc'[r] = "l1"
              /\ l2_calls'[r] > l2_calls[r] =>
                    pc[r] = "l1" /\ l1'[r].kind # "none" /\ pc'[r] = "l2" ]_vars

\* C19 witness: the lookup failed, L1 failed, and the request waits for L2
C19_Witness ==
    \E r \in Slots :
        /\ pc[r] = "l2"
        /\ cache_read[r] = "error"
        /\ l1[r].kind = "fail"
        /\ l1_calls[r] = 1
        /\ l2_calls[r] = 1

\* C20: a write-back runs only after its request has returned its response;
\* whether it goes through or fails, no response changes and no request is
\* held; a failed write changes only the cache_write error counter.
C20_WriteBackOffResponsePath ==
    /\ [](\A r \in Slots :
            write[r] => pc[r] = "done" /\ resp[r].status = 200 /\ ~resp[r].cached)
    /\ [][ \A r \in Slots :
              (write[r] /\ pc'[r] = "idle") =>
                 /\ \A q \in Slots \ { r } : pc'[q] = pc[q] /\ resp'[q] = resp[q]
                 /\ active_requests' = active_requests
                 /\ \/ errors_counter' = errors_counter
                    \/ /\ errors_counter' =
                             [ errors_counter EXCEPT !["cache_write"] = @ + 1 ]
                       /\ cache' = cache ]_vars

\* C20 witness: a write-back has failed, and a request that returned an L1
\* decision while another was still in flight has its write-back pending
C20_Witness ==
    /\ errors_counter["cache_write"] = 1
    /\ \E r, q \in Slots :
          /\ pc[r] = "done" /\ write[r] /\ resp[r].layer = "L1"
          /\ InFlight(q)

\* C21: classify never answers its caller with an error: with the model not
\* loaded, or with any fault inside the inference, the reply is the fallback
\* label "cortex" with confidence 0.
C21_ClassifyNeverFails ==
    reply # NoReply =>
        /\ reply.status = 200
        /\ (llm = "none" \/ Raises(output)) => reply = ClassifyResponse("cortex", 0)

\* C21 witness: the model call raised and the caller got cortex with 0
C21_Witness ==
    /\ llm = "loaded"
    /\ output.kind = "raise"
    /\ reply = ClassifyResponse("cortex", 0)

\* C22: the route of a reply is one of the known labels, and a model text that
\* matches none of them is answered with the fallback label and confidence 0.
C22_ClosedLabelSet ==
    reply # NoReply =>
        /\ reply.route \in { ServerRoutes[i] : i \in 1..Len(ServerRoutes) }
        /\ ( /\ llm = "loaded"
             /\ output.kind = "ok"
             /\ \A i \in 1..Len(ServerRoutes) : ServerRoutes[i] \notin LabelsIn(StripLower(output.text)) )
           => reply.route = "cortex" /\ reply.confidence = 0

Decides(r) == pc[r] # "done" /\ pc'[r] = "done" /\ resp'[r].status = 200

\* C25: total_requests of /stats is the number of requests that have returned
\* a decision, cache hits and decisions with any label included: every such
\* return raises it by one.
C25_TotalRequestsCountsAll ==
    [][ \A r \in Slots :
           Decides(r) => Stats'.total_requests = Stats.total_requests + 1 ]_vars

\* C26: every request that passes the cache check increments exactly one of
\* cache_hits and cache_misses, and a request counted as a hit calls no
\* classifier.
C26_HitOrMissCounted ==
    /\ [][ \A r \in Slots :
              Lookup(r) =>
                 \/ /\ metrics'.cache_hits = metrics.cache_hits + 1
                    /\ metrics'.cache_misses = metrics.cache_misses
                    /\ pc'[r] = "done"
                 \/ /\ metrics'.cache_misses = metrics.cache_misses + 1
                    /\ metrics'.cache_hits = metrics.cache_hits ]_vars
    /\ [](\A r \in Slots : cache_read[r] = "hit" => l1_calls[r] = 0 /\ l2_calls[r] = 0)

\* C27 as stated: every return of a decision, a cache hit included, raises
\* endpoint_load of the returned route by one, and no step lowers a value.
C27_AsStated ==
    [][ /\ \A l \in Labels : metrics'.endpoint_load[l] >= metrics.endpoint_load[l]
        /\ \A r \in Slots :
              Decides(r) =>
                 metrics'.endpoint_load[resp'[r].route] =
                    metrics.endpoint_load[resp'[r].route] + 1 ]_vars

\* C27: endpoint_load of a route goes up by one with every decision for that
\* route returned by L1, L2 or the escalation, stays as it is on a cache hit
\* and on every other step, and never goes down.
C27_LoadCountsClassifiedDecisions ==
    [][ /\ \A l \in Labels : metrics'.endpoint_load[l] >= metrics.endpoint_load[l]
        /\ \A r \in Slots :
              Decides(r) =>
                 metrics'.endpoint_load =
                    IF resp'[r].cached
                    THEN metrics.endpoint_load
                    ELSE [ metrics.endpoint_load EXCEPT ![resp'[r].route] = @ + 1 ]
        /\ (\A r \in Slots : ~Decides(r)) =>
              metrics'.endpoint_load = metrics.endpoint_load ]_vars

\* C27 witness: one L1 decision for k3s counted, and a later request for the
\* same text answered from the cache without a second count
C27_Witness ==
    /\ metrics.endpoint_load["k3s"] = 1
    /\ metrics.cache_hits = 1
    /\ \E r \in Slots :
          /\ pc[r] = "done"
          /\ resp[r].cached
          /\ resp[r].route = "k3s"

\* C28: a request that is classified makes one ttft observation when it
\* returns a confident decision of L1 or L2, and none when it escalates.
C28_TtftOncePerConfidentDecision ==
    \A r \in Slots :
        (Classified(r) /\ resp[r].status = 200) =>
            ttft_calls[r] = IF resp[r].layer \in { "L1", "L2" } THEN 1 ELSE 0

\* C29: the response of a classified request is a function of its own L1 and
\* L2 results, a cache hit returns the entry the request read at its own
\* lookup, and a step of one request changes nothing of another request.
C29_RequestsIndependent ==
    /\ [](\A r, q \in Slots :
            (Classified(r) /\ Classified(q) /\ l1[r] = l1[q] /\ l2[r] = l2[q])
            => resp[r] = resp[q] /\ write[r] = write[q])
    /\ [][ \A r \in Slots :
              (Lookup(r) /\ cache_read'[r] = "hit") =>
                 /\ Live(cache[CacheKey(msg[r])], now)
                 /\ resp'[r] = CachedResponse(cache[CacheKey(msg[r])].data) ]_vars
    /\ [][ \A r, q \in Slots :
              (r # q /\ pc'[q] # pc[q]) =>
                 /\ pc'[r] = pc[r] /\ resp'[r] = resp[r] /\ write'[r] = write[r]
                 /\ cache_read'[r] = cache_read[r]
                 /\ l1'[r] = l1[r] /\ l2'[r] = l2[r]
                 /\ l1_calls'[r] = l1_calls[r] /\ l2_calls'[r] = l2_calls[r] ]_vars

\* C29 witness: both classifiers failed for one request, which escalated,
\* while the other request for the same text got its L1 decision
C29_Witness ==
    \E r, q \in Slots :
        /\ r # q
        /\ msg[r] = msg[q]
        /\ pc[r] = "done" /\ l1[r].kind = "fail" /\ l2[r].kind = "fail"
        /\ resp[r].layer = "escalated"
        /\ pc[q] = "done" /\ cache_read[q] = "miss"
        /\ resp[q].layer = "L1" /\ resp[q].route = "k3s"

\* C30: the value written for a decision holds its route, route_url,
\* confidence and layer and nothing else; a hit on the entry returns these
\* four with cached = true, a latency measured anew and no ttft_ms.
C30_CacheRoundTrip ==
    /\ [](\A k \in Keys :
            cache[k].present =>
               /\ DOMAIN cache[k].data = { "route", "route_url", "confidence", "layer" }
               /\ cache[k].data.layer \in { "L1", "L2" })
    /\ [][ \A r \in Slots :
              (write[r] /\ cache'[CacheKey(msg[r])] # cache[CacheKey(msg[r])]) =>
                 cache'[CacheKey(msg[r])].data =
                    [ route |-> resp[r].route, route_url |-> resp[r].route_url,
                      confidence |-> resp[r].confidence, layer |-> resp[r].layer ] ]_vars
    /\ [][ \A r \in Slots :
              (Lookup(r) /\ cache_read'[r] = "hit") =>
                 LET d == cache[CacheKey(msg[r])].data
                 IN  /\ resp'[r].route = d.route
                     /\ resp'[r].route_url = d.route_url
                     /\ resp'[r].confidence = d.confidence
                     /\ resp'[r].layer = d.layer
                     /\ resp'[r].cached
                     /\ resp'[r].latency_ms = "measured"
                     /\ resp'[r].ttft_ms = "none" ]_vars

\* C30 witness: an L2 decision at T2 was written back and is returned by a hit
C30_Witness ==
    \E r \in Slots :
        /\ pc[r] = "done"
        /\ cache_read[r] = "hit"
        /\ cache[CacheKey(msg[r])].data =
              [ route |-> "k3s", route_url |-> ROUTES["k3s"],
                confidence |-> L2_CONFIDENCE, layer |-> "L2" ]
        /\ resp[r].layer = "L2"
        /\ resp[r].cached
        /\ resp[r].ttft_ms = "none"

\* C31: a request answered from the cache leaves the cache as it is (no write,
\* no new time to live), calls neither L1 nor L2, leaves the decision
\* counters, the endpoint gauge and every error counter as they are; the hit
\* counter alone goes up, by one, and the in-flight gauge is back at the value
\* it had before the request came in.
C31_HitTouchesOnlyHitCounter ==
    [][ \A r \in Slots :
           /\ (Lookup(r) /\ cache_read'[r] = "hit") =>
                 /\ cache' = cache
                 /\ ~write'[r]
                 /\ l1_calls'[r] = 0
                 /\ l2_calls'[r] = 0
                 /\ metrics' = [ metrics EXCEPT !.cache_hits = @ + 1 ]
                 /\ errors_counter' = errors_counter
                 /\ active_requests > 0
                 /\ active_requests' = active_requests - 1
           /\ (pc[r] = "done" /\ cache_read[r] = "hit" /\ pc'[r] # "done") =>
                 /\ cache' = cache
                 /\ metrics' = metrics
                 /\ errors_counter' = errors_counter
                 /\ active_requests' = active_requests ]_vars

\* C31 witness: two requests answered from the cache one after the other, no
\* request in flight, one decision counted, no error counted
C31_Witness ==
    /\ metrics.cache_hits = 2
    /\ metrics.cache_misses = 1
    /\ active_requests = 0
    /\ \A e \in ErrorTypes : errors_counter[e] = 0
    /\ SumOver(metrics.route_counter, DOMAIN metrics.route_counter) = 1
    /\ \E r \in Slots :
          /\ pc[r] = "done"
          /\ cache_read[r] = "hit"
          /\ l1_calls[r] = 0
          /\ l2_calls[r] = 0

\* C32: requests for one text that are in flight together and all miss the
\* cache each call L1 themselves, each confident one schedules a write of its
\* own, every change of the cache is the write of one such request: the entry
\* is that request's decision, with a time to live that starts anew.
C32_ConcurrentMissesLastWriteWins ==
    /\ [](\A r \in Slots :
            /\ (cache_read[r] = "miss" /\ pc[r] # "cache_get") => l1_calls[r] = 1
            /\ (Classified(r) /\ resp[r].status = 200) =>
                  (write[r] <=> resp[r].layer \in { "L1", "L2" }))
    /\ [][ cache' # cache =>
              \E r \in Slots :
                 /\ pc[r] = "done"
                 /\ write[r]
                 /\ cache_read[r] # "hit"
                 /\ resp[r].layer \in { "L1", "L2" }
                 /\ cache' =
                      [ cache EXCEPT ![CacheKey(msg[r])] =
                          [ present |-> TRUE,
                            data |-> [ route |-> resp[r].route,
                                       route_url |-> resp[r].route_url,
                                       confidence |-> resp[r].confidence,
                                       layer |-> resp[r].layer ],
                            written_at |-> now,
                            expires |-> now + CACHE_TTL ] ] ]_vars

\* C32 witness: two requests for one text missed the cache together; the L1
\* decision of one is in the cache, written after the clock moved, and the L2
\* decision of the other is about to replace it
C32_Witness ==
    \E r \in Slots :
        /\ pc[r] = "done"
        /\ cache_read[r] = "miss"
        /\ write[r]
        /\ resp[r].layer = "L2"
        /\ Live(cache[CacheKey(msg[r])], now)
        /\ cache[CacheKey(msg[r])].data.layer = "L1"
        /\ cache[CacheKey(msg[r])].written_at = TickStep

\* C33: the context of a request has no influence: two requests with one
\* text and different contexts read the cache under one key and send one
\* payload to the classifiers; what the lookup finds depends on the entry under
\* the key of the text alone, and with the same L1 and L2 answers the two get
\* the same route, route_url, confidence, layer and cached flag.
C33_ContextHasNoInfluence ==
    /\ [](\A r, q \in Slots :
            (pc[r] # "idle" /\ pc[q] # "idle" /\ msg[r] = msg[q]) =>
               /\ cache_key[r] = cache_key[q]
               /\ ClassifyPayload(msg[r], context[r]) = ClassifyPayload(msg[q], context[q])
               /\ ( /\ Classified(r) /\ Classified(q)
                    /\ l1[r] = l1[q] /\ l2[r] = l2[q] )
                  => /\ resp[r].route = resp[q].route
                     /\ resp[r].route_url = resp[q].route_url
                     /\ resp[r].confidence = resp[q].confidence
                     /\ resp[r].layer = resp[q].layer
                     /\ resp[r].cached = resp[q].cached)
    /\ [][ \A r \in Slots :
              /\ (Lookup(r) /\ cache_read'[r] = "miss") => ~Live(cache[CacheKey(msg[r])], now)
              /\ (Lookup(r) /\ cache_read'[r] = "hit") =>
                    /\ Live(cache[CacheKey(msg[r])], now)
                    /\ resp'[r] = CachedResponse(cache[CacheKey(msg[r])].data) ]_vars

\* C33 witness: one text sent without a context and with one, both requests
\* in flight together, both answered by L1 alike
C33_Witness ==
    \E r, q \in Slots :
        /\ pc[r] = "done" /\ pc[q] = "done"
        /\ msg[r] = msg[q]
        /\ context[r] = "null" /\ context[q] # "null"
        /\ cache_read[r] = "miss" /\ cache_read[q] = "miss"
        /\ l1[r] = Ans("k3s", 85) /\ l1[q] = Ans("k3s", 85)
        /\ resp[r] = resp[q]
        /\ resp[r].layer = "L1"

\* C34: a lookup that returns a value which cannot be decoded does not fail
\* the request: a cache_read error is counted, the request goes on to L1 and
\* its answer carries cached = false.
C34_UndecodableEntryFallsThrough ==
    /\ [][ \A r \in Slots :
              ( /\ Lookup(r)
                /\ Live(cache[cache_key[r]], now)
                /\ ~Decodable(cache[cache_key[r]].data) )
              => /\ pc'[r] = "l1"
                 /\ cache_read'[r] = "error"
                 /\ l1_calls'[r] = 1
                 /\ errors_counter' = [ errors_counter EXCEPT !["cache_read"] = @ + 1 ]
                 /\ resp'[r] = NoResponse ]_vars
    /\ [](\A r \in Slots :
            (pc[r] = "done" /\ cache_read[r] = "error") =>
               /\ resp[r].status = 200
               /\ ~resp[r].cached
               /\ resp[r].layer \in { "L1", "L2", "escalated" })

\* C34 witness: the entry under the key is not a decision; the request that
\* read it was answered by L1, one cache_read error counted
C34_Witness ==
    \E r \in Slots :
        /\ pc[r] = "done"
        /\ cache_read[r] = "error"
        /\ cache[cache_key[r]].data = Garbage
        /\ Live(cache[cache_key[r]], now)
        /\ metrics.cache_hits = 1
        /\ errors_counter["cache_read"] = 1
        /\ resp[r].layer = "L1"
        /\ ~resp[r].cached

\* a classifier answer at or above threshold t that cannot become a decision
Unusable(ans, t) == ans.kind = "answer" /\ ans.confidence >= t /\ ~ans.has_route

\* C35: when a classifier answers at or above its threshold and the answer
\* cannot become a decision (the route is missing), the tier counts as failed:
\* no decision of that tier is counted, no cache write is scheduled, and the
\* request goes on to L2 (after L1) or escalates with confidence 0.0 (after L2).
C35_UnusableAnswerIsFailedTier ==
    [][ \A r \in Slots :
           /\ (pc[r] = "l1" /\ pc'[r] # "l1" /\ Unusable(l1'[r], L1_CONFIDENCE)) =>
                 /\ pc'[r] = "l2"
                 /\ l2_calls'[r] = 1
                 /\ ~write'[r]
                 /\ resp'[r] = NoResponse
                 /\ metrics'.route_counter = metrics.route_counter
                 /\ metrics'.endpoint_load = metrics.endpoint_load
                 /\ errors_counter' = [ errors_counter EXCEPT !["l1_inference"] = @ + 1 ]
           /\ (pc[r] = "l2" /\ pc'[r] # "l2" /\ Unusable(l2'[r], L2_CONFIDENCE)) =>
                 /\ pc'[r] = "done"
                 /\ ~write'[r]
                 /\ resp'[r].status = 200
                 /\ resp'[r].layer = "escalated"
                 /\ resp'[r].route = "cortex"
                 /\ resp'[r].confidence = 0
                 /\ metrics'.route_counter =
                       [ metrics.route_counter EXCEPT ![<< "cortex", "escalated" >>] = @ + 1 ]
                 /\ errors_counter' = [ errors_counter EXCEPT !["l2_inference"] = @ + 1 ]
           /\ (pc[r] = "done" /\ write[r]) => resp[r].layer \in { "L1", "L2" } ]_vars

\* C35 witness: L1 and L2 both answered 0.85 without a route; the request was
\* escalated with confidence 0, both inference errors counted, nothing to write
C35_Witness ==
    \E r \in Slots :
        /\ pc[r] = "done"
        /\ l1[r] = AnsNoRoute(85)
        /\ l2[r] = AnsNoRoute(85)
        /\ resp[r].layer = "escalated"
        /\ resp[r].confidence = 0
        /\ ~write[r]
        /\ errors_counter["l1_inference"] = 1
        /\ errors_counter["l2_inference"] = 1
        /\ metrics.route_counter[<< "cortex", "escalated" >>] = 1

\* the order in which the labels are tried
LabelOrder == << "unifi", "proxmox", "grafana", "elastic", "k3s", "netdata", "cortex" >>

\* the model was called and the try block ran to its end
Matched(out) == out.kind = "ok" /\ ~Raises(out)

\* C36: the route is the first label, in the order unifi, proxmox, grafana,
\* elastic, k3s, netdata, cortex, that occurs in the trimmed lower-case model
\* output, and "cortex" when none occurs; it depends on the model output only,
\* not on the text of the request.
C36_FirstLabelInOrder ==
    /\ []((llm = "loaded" /\ Matched(output)) =>
            LET found == LabelsIn(StripLower(output.text))
            IN  IF found = {}
                THEN reply.route = "cortex"
                ELSE \E i \in 1..Len(LabelOrder) :
                        /\ reply.route = LabelOrder[i]
                        /\ LabelOrder[i] \in found
                        /\ \A j \in 1..(i - 1) : LabelOrder[j] \notin found)
    /\ [][ ( /\ llm = "loaded"
             /\ Matched(output) /\ Matched(output')
             /\ output'.text = output.text )
           => reply'.route = reply.route ]_vars

\* C36 witness: the model wrote "k3s/unifi" for the request "list my pods";
\* unifi comes first in the order and is the route
C36_Witness ==
    /\ llm = "loaded"
    /\ output.input = "list my pods"
    /\ output.kind = "ok"
    /\ output.text = "k3s/unifi"
    /\ output.logprobs = Logprobs("finite", -5)
    /\ reply.route = "unifi"

\* C37: the confidence of an escalated response is the one L2 returned when
\* L2 answered below T2, and 0.0 when the L2 call failed; it is never L1's.
C37_EscalatedConfidenceFromL2 ==
    \A r \in Slots :
        (Classified(r) /\ resp[r].status = 200 /\ resp[r].layer = "escalated") =>
            /\ l2_calls[r] = 1
            /\ (l2[r].kind = "answer" /\ l2[r].confidence < L2_CONFIDENCE) =>
                  resp[r].confidence = l2[r].confidence
            /\ l2[r].kind = "fail" => resp[r].confidence = 0

\* C37 witness: L1 answered 0.0 and L2 0.55; the escalation carries 0.55
C37_Witness ==
    \E r \in Slots :
        /\ pc[r] = "done"
        /\ l1[r] = Ans("k3s", 0)
        /\ l2[r] = Ans("k3s", 55)
        /\ resp[r].layer = "escalated"
        /\ resp[r].confidence = 55

====
